---- MODULE Spec2Model ----
(***************************************************************************)
(* Model of the two Streamlit dashboards desc/desc2.py and desc/esc.py:    *)
(* load_data (workbook -> DataFrame | None), the filter widgets and the    *)
(* boolean-mask filter of main, and the groupby/mean of                    *)
(* create_enhanced_plots.  One behaviour is one run of the script main().  *)
(*                                                                         *)
(* Numbers are fixed-point: a score x is stored as the integer x * Scale   *)
(* (three decimals), so 85.3 is 85300.  A missing cell (pandas NaN) and a  *)
(* text cell are kept apart from numbers by the cell's tag.                *)
(***************************************************************************)
EXTENDS Integers, Sequences, FiniteSets, TLC

VARIABLES variant, file, pc, df, log, sel, filtered_df, grouped_data,
          radio, sorted_df, out, crash, loads, faults

vars == <<variant, file, pc, df, log, sel, filtered_df, grouped_data,
          radio, sorted_df, out, crash, loads, faults>>

-----------------------------------------------------------------------------
(* Bounds of the model.                                                    *)

\* rows of a sheet in the loader specification
MaxLoadRows == 2
\* rows of a sheet in the filter and aggregation specifications
MaxRows == 3
\* rows of a sheet in the session specification
MaxSessionRows == 1
\* runs of the script in one session
MaxRuns == 2

Scale == 10 * 100

-----------------------------------------------------------------------------
(* Cells.                                                                  *)

\* pandas NaN in a categorical column (an empty spreadsheet cell)
NaN == "<NaN>"

NumCell(n) == [t |-> "num", n |-> n, s |-> <<>>]
TxtCell(s) == [t |-> "txt", n |-> 0, s |-> s]
NaNCell == [t |-> "nan", n |-> 0, s |-> <<>>]

Digits == <<"0", "1", "2", "3", "4", "5", "6", "7", "8", "9">>

IsDigit(c) == \E i \in 1..10 : Digits[i] = c

DigitVal(c) == (CHOOSE i \in 1..10 : Digits[i] = c) - 1

\* Series.str.replace('%', ''): every occurrence is removed
StripPercent(s) == SelectSeq(s, LAMBDA c : c # "%")

\* Series.str.replace(',', '.')
CommaToDot(s) == [i \in 1..Len(s) |-> IF s[i] = "," THEN "." ELSE s[i]]

RECURSIVE IntVal(_)
IntVal(s) ==
    IF s = <<>> THEN 0
    ELSE 10 * IntVal(SubSeq(s, 1, Len(s) - 1)) + DigitVal(s[Len(s)])

Pow10(k) == IF k = 0 THEN 1 ELSE IF k = 1 THEN 10 ELSE IF k = 2 THEN 100 ELSE 1000

\* float(s) for the strings of the model's alphabet (digits, '.', ',', '%',
\* letters other than those of "nan"/"inf"): digits with at most one '.',
\* at least one digit, at most three decimals.  ok = FALSE is ValueError.
ParseFloat(s) ==
    LET dots == {i \in 1..Len(s) : s[i] = "."}
        good == /\ Cardinality(dots) <= 1
                /\ \A i \in 1..Len(s) : s[i] = "." \/ IsDigit(s[i])
                /\ \E i \in 1..Len(s) : IsDigit(s[i])
        d == IF dots = {} THEN Len(s) + 1 ELSE CHOOSE i \in dots : TRUE
        ip == SubSeq(s, 1, d - 1)
        fp == SubSeq(s, d + 1, Len(s))
    IN  IF good /\ Len(fp) <= 3
        THEN [ok |-> TRUE, n |-> IntVal(ip) * Scale + IntVal(fp) * Pow10(3 - Len(fp))]
        ELSE [ok |-> FALSE, n |-> 0]

-----------------------------------------------------------------------------
(* Columns.                                                                *)

\* Column and sheet names are written in ASCII (MEDIA for M\'EDIA, N QUESTAO
\* for the question-number column, 5_ANO_E_9_ANO for the sheet of esc.py).

\* the keys of required_columns, in dict order
RequiredColumns(v) ==
    IF v = "desc2"
    THEN <<"DESCRITOR", "MEDIA ACERTOS (%)", "COMPONENTE", "ETAPA", "DESCRICAO">>
    ELSE <<"ESCOLA", "DESEMPENHO", "QUESTAO", "DESCRITOR", "ETAPA", "COMP. CURRICULAR">>

SheetName(v) == IF v = "desc2" THEN "DESCRITORES_2025" ELSE "5_ANO_E_9_ANO"

Range(s) == {s[i] : i \in 1..Len(s)}

\* A row holds the cells of the columns the filter and the charts read:
\* escola (ESCOLA), etapa (ETAPA), comp (COMPONENTE / COMP. CURRICULAR),
\* desc (DESCRITOR) and score (MEDIA ACERTOS (%) / DESEMPENHO).
Row(x, e, c, d, s) == [escola |-> x, etapa |-> e, comp |-> c, desc |-> d, score |-> s]

None == [ok |-> FALSE, cols |-> {}, rows |-> <<>>]
Frame(cols, rows) == [ok |-> TRUE, cols |-> cols, rows |-> rows]

NoLog == [kind |-> "", cols |-> <<>>]

-----------------------------------------------------------------------------
(* load_data.                                                              *)

\* the check of the required columns left out
MissingCols_skipped(v, cols) == <<>>

\* only the first missing column reported
MissingCols_first(v, cols) ==
    LET m == SelectSeq(RequiredColumns(v), LAMBDA c : c \notin cols)
    IN  IF m = <<>> THEN m ELSE <<m[1]>>

\* [col for col in required_columns if col not in df.columns]
MissingCols(v, cols) == SelectSeq(RequiredColumns(v), LAMBDA c : c \notin cols)

\* df['MEDIA ACERTOS (%)'].dtype == object: some cell of the column is text
IsObjectDtype(rows) == \E i \in 1..Len(rows) : rows[i].score.t = "txt"

\* .str.replace('%', '').str.replace(',', '.') on one cell of an object
\* column: the .str accessor gives NaN for a cell that is not a string
StrNormalize(cell) ==
    IF cell.t = "txt" THEN TxtCell(CommaToDot(StripPercent(cell.s))) ELSE NaNCell

\* .astype(float) on one cell: float(str), NaN stays NaN
AsFloat(cell) ==
    IF cell.t = "txt"
    THEN LET p == ParseFloat(cell.s)
         IN  IF p.ok THEN [ok |-> TRUE, cell |-> NumCell(p.n)]
             ELSE [ok |-> FALSE, cell |-> NaNCell]
    ELSE [ok |-> TRUE, cell |-> cell]

ConvertScore(cell) == AsFloat(StrNormalize(cell))

\* the conversion of the score column (desc2.py only)
ConvertPercentages(v, rows) ==
    IF v = "desc2" /\ IsObjectDtype(rows)
    THEN IF \E i \in 1..Len(rows) : ~ConvertScore(rows[i].score).ok
         THEN [ok |-> FALSE, rows |-> <<>>]
         ELSE [ok |-> TRUE,
               rows |-> [i \in 1..Len(rows) |->
                           [rows[i] EXCEPT !.score = ConvertScore(rows[i].score).cell]]]
    ELSE [ok |-> TRUE, rows |-> rows]

\* df.drop(columns=['Unnamed: 0']) (desc2.py only)
DropUnnamed(v, cols) == IF v = "desc2" THEN cols \ {"Unnamed: 0"} ELSE cols

Returned(d, l) == [res |-> "return", df |-> d, log |-> l]
Raised(what) == [res |-> "raise", df |-> None, log |-> [kind |-> what, cols |-> <<>>]]

\* the statements inside the try block of load_data
LoadBody(v, f) ==
    IF ~f.exists
    THEN Returned(None, [kind |-> "FileNotFound", cols |-> <<>>])
    ELSE IF ~f.readable
    THEN Raised("ExcelFile")
    ELSE IF SheetName(v) \notin f.sheets
    THEN Returned(None, [kind |-> "SheetNotFound", cols |-> <<>>])
    ELSE LET cols == DropUnnamed(v, f.header)
             missing_cols == MissingCols(v, cols)
             conv == ConvertPercentages(v, f.rows)
         IN  IF missing_cols # <<>>
             THEN Returned(None, [kind |-> "MissingColumns", cols |-> missing_cols])
             ELSE IF ~conv.ok
             THEN Raised("ValueError")
             ELSE Returned(Frame(cols, conv.rows), NoLog)

\* load_data without its try/except
load_data_uncaught(v, f) == LoadBody(v, f)

\* try: ... except Exception as e: logger.error(...); return None
load_data(v, f) ==
    LET b == LoadBody(v, f)
    IN  IF b.res = "raise"
        THEN Returned(None, [kind |-> "LoadError", cols |-> <<>>])
        ELSE b

-----------------------------------------------------------------------------
(* main: loading.                                                          *)

\* main with the return after st.error left out
Load_noreturn ==
    /\ pc = "start"
    /\ LET r == load_data(variant, file)
       IN  /\ df' = r.df
           /\ log' = r.log
           /\ pc' = "loaded"
           /\ out' = IF r.df.ok THEN out ELSE Append(out, "error:load")
    /\ loads' = loads + 1
    /\ UNCHANGED <<variant, file, sel, filtered_df, grouped_data, radio, sorted_df,
                   crash, faults>>

\* df = load_data(file_path); if df is None: st.error(...); return
Load ==
    /\ pc = "start"
    /\ loads' = loads + 1
    /\ LET r == load_data(variant, file)
       IN  IF r.res = "raise"
           THEN /\ pc' = "crashed"
                /\ crash' = "load_data"
                /\ log' = r.log
                /\ UNCHANGED <<df, out>>
           ELSE /\ df' = r.df
                /\ log' = r.log
                /\ crash' = crash
                /\ IF r.df.ok
                   THEN pc' = "loaded" /\ out' = out
                   ELSE pc' = "done" /\ out' = Append(out, "error:load")
    /\ UNCHANGED <<variant, file, sel, filtered_df, grouped_data, radio, sorted_df, faults>>

-----------------------------------------------------------------------------
(* main: the filter widgets.                                               *)

\* the score stops of the slider that the model draws from (the slider
\* itself ranges over the integers 0..100)
SliderStops == {0, 50, 100}

\* df[col].unique(), as a set
Unique(rows, col) == {rows[i][col] : i \in 1..Len(rows)}

\* sorted(df[col].unique()) raises TypeError when NaN (a float) is compared
\* with a str: the column has an empty cell and a text value
SortedRaises(rows, col) ==
    LET u == Unique(rows, col) IN NaN \in u /\ u # {NaN}

\* st.sidebar.multiselect(options=...): any subset of the options
Multiselect(options) == SUBSET options

\* st.sidebar.selectbox(options=...): one option, None (matching no row)
\* when there is no option; the value is used as isin([value])
Selectbox(options) == IF options = {} THEN {{}} ELSE {{o} : o \in options}

\* the columns whose unique values main sorts, in the order of the widgets
WidgetCols(v) ==
    IF v = "desc2" THEN <<"etapa", "comp", "desc">>
    ELSE <<"escola", "etapa", "comp", "desc">>

NoSel == [escola |-> {}, anos |-> {}, componentes |-> {}, descritores |-> {},
          min |-> 0, max |-> 0]

\* the sidebar widgets; in esc.py school and stage are single-select
SelectFilters ==
    /\ pc = "loaded"
    /\ IF \E i \in 1..Len(WidgetCols(variant)) : SortedRaises(df.rows, WidgetCols(variant)[i])
       THEN /\ pc' = "crashed"
            /\ crash' = "sorted"
            /\ sel' = sel
       ELSE /\ pc' = "selected"
            /\ crash' = crash
            /\ \E x \in (IF variant = "esc" THEN Selectbox(Unique(df.rows, "escola")) ELSE {{}}),
                  a \in (IF variant = "esc" THEN Selectbox(Unique(df.rows, "etapa"))
                         ELSE Multiselect(Unique(df.rows, "etapa"))),
                  c \in Multiselect(Unique(df.rows, "comp")),
                  d \in Multiselect(Unique(df.rows, "desc")),
                  lo \in SliderStops, hi \in SliderStops :
                  /\ lo <= hi
                  /\ sel' = [escola |-> x, anos |-> a, componentes |-> c,
                             descritores |-> d, min |-> lo, max |-> hi]
    /\ UNCHANGED <<variant, file, df, log, filtered_df, grouped_data, radio, sorted_df, out,
                   loads, faults>>

-----------------------------------------------------------------------------
(* main: the filter.                                                       *)

\* the lower bound compared with > instead of >=
ScoreGE_strict(cell, lo) == cell.t = "num" /\ cell.n > lo * Scale

\* df[score] >= min_score: NaN compares False
ScoreGE(cell, lo) == cell.t = "num" /\ cell.n >= lo * Scale

\* df[score] <= max_score
ScoreLE(cell, hi) == cell.t = "num" /\ cell.n <= hi * Scale

\* the comparison of an object column holding a str with an int raises
\* TypeError (esc.py keeps text score cells)
CompareRaises(rows) == \E i \in 1..Len(rows) : rows[i].score.t = "txt"

\* the mask with an empty component selection read as "all components"
Mask_fallback(v, r, s) ==
    /\ v = "esc" => r.escola \in s.escola
    /\ r.etapa \in s.anos
    /\ (s.componentes = {} \/ r.comp \in s.componentes)
    /\ ScoreGE(r.score, s.min)
    /\ ScoreLE(r.score, s.max)

\* the boolean mask of df[...]
Mask(v, r, s) ==
    /\ v = "esc" => r.escola \in s.escola
    /\ r.etapa \in s.anos
    /\ r.comp \in s.componentes
    /\ ScoreGE(r.score, s.min)
    /\ ScoreLE(r.score, s.max)

\* if descritores: filtered_df = filtered_df[filtered_df['DESCRITOR'].isin(descritores)]
DescritorFilter(rows, s) ==
    IF s.descritores # {}
    THEN SelectSeq(rows, LAMBDA r : r.desc \in s.descritores)
    ELSE rows

RECURSIVE Reverse(_)
Reverse(q) == IF q = <<>> THEN <<>> ELSE Append(Reverse(Tail(q)), q[1])

\* the filter followed by a reordering of the result
FilterRows_reordered(v, rows, s) ==
    Reverse(DescritorFilter(SelectSeq(rows, LAMBDA r : Mask(v, r, s)), s))

\* the filter with the first matching row sliced off ([1:])
FilterRows_skipfirst(v, rows, s) ==
    LET kept == DescritorFilter(SelectSeq(rows, LAMBDA r : Mask(v, r, s)), s)
    IN  IF Len(kept) > 1 THEN Tail(kept) ELSE kept

\* the filtered rows: boolean indexing keeps the rows and their order
FilterRows(v, rows, s) ==
    DescritorFilter(SelectSeq(rows, LAMBDA r : Mask(v, r, s)), s)

\* the filter without the check of the empty result
ApplyFilter_nocheck ==
    /\ pc = "selected"
    /\ IF CompareRaises(df.rows)
       THEN /\ pc' = "crashed"
            /\ crash' = "compare"
            /\ UNCHANGED <<filtered_df, out>>
       ELSE /\ filtered_df' = Frame(df.cols, FilterRows(variant, df.rows, sel))
            /\ crash' = crash
            /\ pc' = "filtered"
            /\ out' = out
    /\ UNCHANGED <<variant, file, df, log, sel, grouped_data, radio, sorted_df, loads, faults>>

\* filtered_df = df[...]; if filtered_df.empty: st.warning(...); return
ApplyFilter ==
    /\ pc = "selected"
    /\ IF CompareRaises(df.rows)
       THEN /\ pc' = "crashed"
            /\ crash' = "compare"
            /\ UNCHANGED <<filtered_df, out>>
       ELSE /\ filtered_df' = Frame(df.cols, FilterRows(variant, df.rows, sel))
            /\ crash' = crash
            /\ IF filtered_df'.rows = <<>>
               THEN pc' = "done" /\ out' = Append(out, "warning:empty")
               ELSE pc' = "filtered" /\ out' = out
    /\ UNCHANGED <<variant, file, df, log, sel, grouped_data, radio, sorted_df, loads, faults>>

-----------------------------------------------------------------------------
(* The components: each body runs inside try/except Exception.             *)

\* the components whose body makes a library call that can raise
Components == {"cards", "plots", "table"}

Ran(o) == [raised |-> FALSE, out |-> o]
Failed(o) == [raised |-> TRUE, out |-> o]

\* a component without its try/except: the exception leaves the component
TryComponent_nocatch(res, msg) == [out |-> res.out, escaped |-> res.raised]

\* try: <body> except Exception as e: logger.error(...); st.error(msg)
TryComponent(res, msg) ==
    [out |-> IF res.raised THEN Append(res.out, msg) ELSE res.out, escaped |-> FALSE]

\* what a component leaves behind: its output, or the exception in main
Component(r, here, next) ==
    IF r.escaped
    THEN pc' = "crashed" /\ crash' = here /\ out' = out \o r.out
    ELSE pc' = next /\ crash' = crash /\ out' = out \o r.out

-----------------------------------------------------------------------------
(* show_metrics_cards.                                                     *)

\* avg, max, min and count of the score column, then the four cards
CardsBody(f) == IF "cards" \in f THEN Failed(<<>>) ELSE Ran(<<"cards">>)

ShowMetricsCards ==
    /\ pc = "filtered"
    /\ Component(TryComponent(CardsBody(faults), "error:cards"), "cards", "cards")
    /\ UNCHANGED <<variant, file, df, log, sel, filtered_df, grouped_data, radio, sorted_df,
                   loads, faults>>

-----------------------------------------------------------------------------
(* create_enhanced_plots.                                                  *)

\* the category values of the model in Python's string order
StrOrder == <<"5", "9", "D1", "D2", "E1", "E2", "LP", "MT">>

StrRank(x) == CHOOSE i \in 1..Len(StrOrder) : StrOrder[i] = x

\* tuple order of two group keys
KeyLess(a, b) ==
    \/ StrRank(a[1]) < StrRank(b[1])
    \/ a[1] = b[1] /\ StrRank(a[2]) < StrRank(b[2])

RECURSIVE SortKeys(_)
SortKeys(ks) ==
    IF ks = {} THEN <<>>
    ELSE LET m == CHOOSE k \in ks : \A o \in ks \ {k} : KeyLess(k, o)
         IN  <<m>> \o SortKeys(ks \ {m})

RECURSIVE SumScores(_)
SumScores(rows) ==
    IF rows = <<>> THEN 0 ELSE rows[1].score.n + SumScores(Tail(rows))

\* Series.mean() of one group, as the exact fraction sum / n
GroupMean(rows) == [sum |-> SumScores(rows), n |-> Len(rows)]

\* the key-tuples without NaN in the order of their first appearance
RECURSIVE FirstAppearance(_, _, _)
FirstAppearance(rows, k1, k2) ==
    IF rows = <<>> THEN <<>>
    ELSE LET k == <<rows[1][k1], rows[1][k2]>>
             rest == FirstAppearance(
                        SelectSeq(Tail(rows), LAMBDA r : <<r[k1], r[k2]>> # k), k1, k2)
         IN  IF k[1] = NaN \/ k[2] = NaN THEN rest ELSE <<k>> \o rest

\* groupby(..., sort=False): the groups in the order of first appearance
GroupBy_unsorted(rows, k1, k2) ==
    LET ord == FirstAppearance(rows, k1, k2)
    IN  [j \in 1..Len(ord) |->
           LET m == GroupMean(SelectSeq(rows,
                        LAMBDA r : r[k1] = ord[j][1] /\ r[k2] = ord[j][2]))
           IN  [k1 |-> ord[j][1], k2 |-> ord[j][2], sum |-> m.sum, n |-> m.n]]

\* df.groupby([k1, k2])[score].mean().reset_index(): rows with NaN in a key
\* are dropped (dropna=True), the groups come out sorted by key (sort=True)
GroupBy(rows, k1, k2) ==
    LET keys == {<<rows[i][k1], rows[i][k2]>> : i \in 1..Len(rows)}
        kept == {k \in keys : k[1] # NaN /\ k[2] # NaN}
        ord == SortKeys(kept)
    IN  [j \in 1..Len(ord) |->
           LET m == GroupMean(SelectSeq(rows,
                        LAMBDA r : r[k1] = ord[j][1] /\ r[k2] = ord[j][2]))
           IN  [k1 |-> ord[j][1], k2 |-> ord[j][2], sum |-> m.sum, n |-> m.n]]

\* a.mean < b.mean for two entries holding sum / n
MeanLess(a, b) == a.sum * b.n < b.sum * a.n

\* DataFrame.sort_values(score, ascending=asc) with the default
\* kind='quicksort', which is not stable: every order of the entries that is
\* sorted by value, whatever the order among equal values
SortValues(entries, asc) ==
    LET n == Len(entries)
        perms == {p \in [1..n -> 1..n] : \A i, j \in 1..n : i # j => p[i] # p[j]}
    IN  {[i \in 1..n |-> entries[p[i]]] : p \in
           {q \in perms : \A i \in 1..n : \A j \in 1..n : i < j =>
               IF asc THEN ~MeanLess(entries[q[j]], entries[q[i]])
               ELSE ~MeanLess(entries[q[i]], entries[q[j]])}}

\* the rows of desc2.py's second chart: one entry per row of the table
RowEntries(rows, g) ==
    [i \in 1..Len(rows) |->
       [k1 |-> rows[i].desc, k2 |-> rows[i][g], sum |-> rows[i].score.n, n |-> 1]]

\* the data of the second chart before sorting
DescriptorView(v, rows, g) ==
    IF v = "desc2" THEN RowEntries(rows, g) ELSE GroupBy(rows, "desc", g)

\* px.bar(..., hover_data=['DESCRICAO', 'N QUESTAO', 'COMPONENTE']) of
\* desc2.py raises ValueError when a named column is not in the frame
Chart2Raises(v, cols) == v = "desc2" /\ "N QUESTAO" \notin cols

\* st.radio("Agrupar por:") and st.radio("Ordenar por:"), index=0
NoRadio == [group_by |-> "etapa", ascending |-> FALSE]

\* chart 1 is shown, then px.bar of chart 2 raises or chart 2 is shown
PlotsBody(v, cols, f) ==
    IF Chart2Raises(v, cols) \/ "plots" \in f
    THEN Failed(<<"chart1">>)
    ELSE Ran(<<"chart1", "chart2">>)

\* chart 1 from grouped_data, the two radios, chart 2 from sorted_df;
\* an exception is caught and replaced by st.error
CreatePlots ==
    /\ pc = "cards"
    /\ grouped_data' = GroupBy(filtered_df.rows,
                               IF variant = "desc2" THEN "etapa" ELSE "escola", "comp")
    /\ \E g \in {"etapa", "comp"}, asc \in BOOLEAN :
          /\ radio' = [group_by |-> g, ascending |-> asc]
          /\ sorted_df' \in SortValues(DescriptorView(variant, filtered_df.rows, g), asc)
    /\ Component(TryComponent(PlotsBody(variant, filtered_df.cols, faults), "error:plots"),
                 "plots", "plots")
    /\ UNCHANGED <<variant, file, df, log, sel, filtered_df, loads, faults>>

-----------------------------------------------------------------------------
(* show_enhanced_data_table and the footer.                                *)

\* the styled table and the two CSV download buttons
TableBody(f) == IF "table" \in f THEN Failed(<<>>) ELSE Ran(<<"table", "exports">>)

ShowTable ==
    /\ pc = "plots"
    /\ Component(TryComponent(TableBody(faults), "error:table"), "table", "table")
    /\ UNCHANGED <<variant, file, df, log, sel, filtered_df, grouped_data, radio, sorted_df,
                   loads, faults>>

Footer ==
    /\ pc = "table"
    /\ pc' = "done"
    /\ out' = Append(out, "footer")
    /\ UNCHANGED <<variant, file, df, log, sel, filtered_df, grouped_data, radio, sorted_df,
                   crash, loads, faults>>

-----------------------------------------------------------------------------
(* The session: Streamlit runs the script again on every interaction.      *)

\* the user changes a filter widget (the file path stays): the script runs
\* again from its first line, with its local variables and the page empty
Rerun ==
    /\ pc \in {"done", "crashed"}
    /\ loads < MaxRuns
    /\ pc' = "start"
    /\ df' = None
    /\ log' = NoLog
    /\ sel' = NoSel
    /\ filtered_df' = None
    /\ grouped_data' = <<>>
    /\ radio' = NoRadio
    /\ sorted_df' = <<>>
    /\ out' = <<>>
    /\ crash' = ""
    /\ UNCHANGED <<variant, file, loads, faults>>

-----------------------------------------------------------------------------
(* Inputs and specifications.                                              *)

Variants == {"desc2", "esc"}

\* score cells of the loader specification: numbers, text and an empty cell
LoadScoreCells ==
    { NumCell(45 * Scale), NumCell(90 * Scale),
      TxtCell(<<"8", "5", ",", "3", "%">>), TxtCell(<<"9", "0">>),
      TxtCell(<<"a", "b", "c">>), NaNCell }

LoadRows == {Row("E1", "5", "LP", d, s) : d \in {"D1", NaN}, s \in LoadScoreCells}

\* rows of the filter specification: three scores of one school, stage,
\* component and descriptor, a row of another stage and component, a row of
\* another descriptor and (esc.py only: desc2.py reads no school column) a
\* row of another school
BaseRow == Row("E1", "5", "LP", "D1", NumCell(50 * Scale))

FilterRowSet(v) ==
    (IF v = "esc" THEN {Row("E2", "5", "LP", "D1", NumCell(60 * Scale))} ELSE {})
    \cup
    { BaseRow,
      Row("E1", "5", "LP", "D1", NumCell(30 * Scale)),
      Row("E1", "5", "LP", "D1", NumCell(70 * Scale)),
      Row("E1", "9", "MT", "D1", NumCell(30 * Scale)),
      Row("E1", "5", "LP", "D2", NumCell(90 * Scale)) }

Tables(rowset, n) == UNION {[1..k -> rowset] : k \in 0..n}

FullHeader(v) == Range(RequiredColumns(v)) \cup {"N QUESTAO"}

Workbook(v, header, rows) ==
    [exists |-> TRUE, readable |-> TRUE, sheets |-> {SheetName(v)},
     header |-> header, rows |-> rows]

\* workbooks that fail before the sheet is read
BrokenFiles(v) ==
    { [Workbook(v, FullHeader(v), <<>>) EXCEPT !.exists = FALSE],
      [Workbook(v, FullHeader(v), <<>>) EXCEPT !.readable = FALSE],
      [Workbook(v, FullHeader(v), <<>>) EXCEPT !.sheets = {"Plan1"}] }

\* headers: the required columns with any of them left out, with or without
\* the index column and the question-number column
Headers(v) ==
    {(Range(RequiredColumns(v)) \ gone) \cup extra :
        gone \in SUBSET Range(RequiredColumns(v)),
        extra \in SUBSET {"Unnamed: 0", "N QUESTAO"}}

LoadFiles(v) ==
    BrokenFiles(v)
    \cup {Workbook(v, h, <<BaseRow>>) : h \in Headers(v)}
    \cup {Workbook(v, FullHeader(v), t) : t \in Tables(LoadRows, MaxLoadRows)}

FilterFiles(v) ==
    BrokenFiles(v)
    \cup {Workbook(v, FullHeader(v), t) : t \in Tables(FilterRowSet(v), MaxRows)}

SessionFiles(v) ==
    BrokenFiles(v)
    \cup {Workbook(v, h, t) : h \in {FullHeader(v), Range(RequiredColumns(v))},
                              t \in Tables(FilterRowSet(v), MaxSessionRows)}

InitWith(files, fs) ==
    /\ variant \in Variants
    /\ file \in files
    /\ faults \in fs
    /\ loads = 0
    /\ pc = "start"
    /\ df = None
    /\ log = NoLog
    /\ sel = NoSel
    /\ filtered_df = None
    /\ grouped_data = <<>>
    /\ radio = NoRadio
    /\ sorted_df = <<>>
    /\ out = <<>>
    /\ crash = ""

InitLoad == \E v \in Variants : variant = v /\ InitWith(LoadFiles(v), {{}})

Init == \E v \in Variants : variant = v /\ InitWith(FilterFiles(v), {{}})

Next ==
    \/ Load
    \/ SelectFilters
    \/ ApplyFilter
    \/ ShowMetricsCards
    \/ CreatePlots
    \/ ShowTable
    \/ Footer

InitSession == \E v \in Variants : variant = v /\ InitWith(SessionFiles(v), SUBSET Components)

NextSession == Next \/ Rerun

\* the loader over workbooks of every shape
SpecLoad == InitLoad /\ [][Next]_vars

\* the filter over well-formed workbooks
Spec == Init /\ [][Next]_vars

\* a session of several runs, with components whose library calls fail
SpecSession == InitSession /\ [][NextSession]_vars

-----------------------------------------------------------------------------
(* Properties of load_data (specification SpecLoad).                       *)

Loaded == pc # "start"

HasRequired == Range(RequiredColumns(variant)) \subseteq file.header

SheetRead == file.exists /\ file.readable /\ SheetName(variant) \in file.sheets

\* C1: whatever the workbook (missing file, unreadable workbook, missing
\* sheet, missing columns, unparseable score cells), load_data hands main a
\* result, a table or the failure value None with its error logged, and no
\* exception leaves load_data.
C1_LoadAlwaysReturns ==
    Loaded => /\ crash # "load_data"
              /\ df.ok <=> log.kind = ""
              /\ ~df.ok => df = None

\* an exception was raised inside load_data (an unparseable score cell) and
\* main received None
C1_Witness ==
    /\ pc = "done"
    /\ df = None
    /\ log.kind = "LoadError"
    /\ SheetRead /\ HasRequired
    /\ \E i \in 1..Len(file.rows) : file.rows[i].score = TxtCell(<<"a", "b", "c">>)

\* C2: load_data returns a table only if the file exists, the required
\* sheet is in the workbook and every required column is in the header; with
\* the file or the sheet missing it returns the failure value, never a table.
C2_TableOnlyFromValidWorkbook ==
    Loaded => /\ df.ok => /\ file.exists
                          /\ SheetName(variant) \in file.sheets
                          /\ HasRequired
              /\ (~file.exists \/ SheetName(variant) \notin file.sheets)
                    => df = None /\ pc = "done"

\* a workbook without the required sheet was refused
C2_Witness ==
    /\ pc = "done"
    /\ file.exists /\ file.readable
    /\ SheetName(variant) \notin file.sheets
    /\ df = None
    /\ log.kind = "SheetNotFound"

\* C3: when the header of the sheet omits required columns, the outcome of
\* the loader is the missing-columns failure, and the names it lists are
\* exactly the required columns absent from the header, each once.
C3_MissingColumnsExact ==
    (Loaded /\ SheetRead /\ ~HasRequired) =>
        /\ df = None
        /\ log.kind = "MissingColumns"
        /\ Range(log.cols) = Range(RequiredColumns(variant)) \ file.header
        /\ Len(log.cols) = Cardinality(Range(log.cols))

\* two required columns are missing and another one is present
C3_Witness ==
    /\ pc = "done"
    /\ log.kind = "MissingColumns"
    /\ Len(log.cols) = 2
    /\ "ETAPA" \in file.header
    /\ "DESCRITOR" \notin file.header

\* the number a text score cell of the model's inputs stands for
ExpectedScore(s) ==
    IF s = <<"8", "5", ",", "3", "%">> THEN 85300
    ELSE IF s = <<"9", "0">> THEN 90000
    ELSE -1

\* C4 (as claimed): every score cell is normalized: the text "85,3%" becomes
\* 85.3, a numeric cell keeps its value, and a text cell that cannot be
\* parsed makes the load fail.
C4_ScoreCellsNormalized ==
    (Loaded /\ SheetRead /\ HasRequired) =>
        /\ (\E i \in 1..Len(file.rows) :
               /\ file.rows[i].score.t = "txt"
               /\ ExpectedScore(file.rows[i].score.s) < 0) => ~df.ok
        /\ df.ok =>
             /\ Len(df.rows) = Len(file.rows)
             /\ \A i \in 1..Len(file.rows) :
                  LET raw == file.rows[i].score
                  IN  /\ raw.t = "num" => df.rows[i].score = raw
                      /\ raw.t = "txt" => df.rows[i].score = NumCell(ExpectedScore(raw.s))

\* C5 (as claimed): in a table load_data returns, every row has a value in
\* every required column, the score column included.
C5_NoNullInRequiredColumns ==
    df.ok => \A i \in 1..Len(df.rows) :
                /\ df.rows[i].escola # NaN
                /\ df.rows[i].etapa # NaN
                /\ df.rows[i].comp # NaN
                /\ df.rows[i].desc # NaN
                /\ df.rows[i].score.t # "nan"

-----------------------------------------------------------------------------
(* Properties of the filter of main (specification Spec).                  *)

\* the filter has run
Filtered == filtered_df.ok

\* q is p with some rows left out: the same rows in the same order
RECURSIVE IsSubSeq(_, _)
IsSubSeq(q, p) ==
    IF q = <<>> THEN TRUE
    ELSE IF p = <<>> THEN FALSE
    ELSE IF q[1] = p[1] THEN IsSubSeq(Tail(q), Tail(p))
    ELSE IsSubSeq(q, Tail(p))

\* the number of rows of q equal to r
Count(q, r) == Cardinality({i \in 1..Len(q) : q[i] = r})

\* r passes the categorical selections (an unset descriptor selection
\* constrains nothing)
CatOK(r) ==
    /\ variant = "esc" => r.escola \in sel.escola
    /\ r.etapa \in sel.anos
    /\ r.comp \in sel.componentes
    /\ sel.descritores # {} => r.desc \in sel.descritores

\* the score of r lies in the closed interval [min, max]
InInterval(r) ==
    /\ r.score.t = "num"
    /\ sel.min * Scale <= r.score.n
    /\ r.score.n <= sel.max * Scale

\* C6: the filtered table holds only rows of the loaded table, verbatim and
\* in the same relative order, and the loaded table is still the one
\* load_data returned.
C6_FilterKeepsRowsAndOrder ==
    Filtered => /\ IsSubSeq(filtered_df.rows, df.rows)
                /\ filtered_df.cols = df.cols
                /\ df = load_data(variant, file).df

\* a filter that kept two different rows and dropped another
C6_Witness ==
    /\ pc = "filtered"
    /\ Len(df.rows) = 3
    /\ Len(filtered_df.rows) = 2
    /\ filtered_df.rows[1] # filtered_df.rows[2]

\* C7: filtering is idempotent: the selection applied to the filtered table
\* gives the filtered table again.
C7_FilterIdempotent ==
    Filtered => FilterRows(variant, filtered_df.rows, sel) = filtered_df.rows

\* a filter with a descriptor selection that kept two rows and dropped one
C7_Witness ==
    /\ pc = "filtered"
    /\ sel.descritores # {}
    /\ Len(filtered_df.rows) = 2
    /\ Len(df.rows) = 3

\* C8 (as claimed): an empty allowed-value set for any categorical filter
\* column (school, stage, component, descriptor) gives a zero-row table.
C8_EmptySetGivesNoRows ==
    Filtered =>
        ((\/ sel.anos = {}
          \/ sel.componentes = {}
          \/ sel.descritores = {}
          \/ variant = "esc" /\ sel.escola = {}) => filtered_df.rows = <<>>)

\* C8 (amended): an empty stage, component or school selection gives a
\* zero-row table whatever the other constraints are; an empty descriptor
\* selection is no constraint: every row that passes the other constraints is
\* kept.
C8_EmptySetExceptDescritores ==
    Filtered =>
        /\ (\/ sel.anos = {}
            \/ sel.componentes = {}
            \/ variant = "esc" /\ sel.escola = {}) => filtered_df.rows = <<>>
        /\ sel.descritores = {} =>
             \A i \in 1..Len(df.rows) :
                (CatOK(df.rows[i]) /\ InInterval(df.rows[i]))
                   => Count(filtered_df.rows, df.rows[i]) = Count(df.rows, df.rows[i])

\* the component selection is empty, the table has a row that passes every
\* other constraint, and the request ends with the warning of the empty result
C8_Witness ==
    /\ pc = "done"
    /\ Filtered
    /\ sel.componentes = {}
    /\ filtered_df.rows = <<>>
    /\ \E i \in 1..Len(df.rows) :
          /\ df.rows[i].etapa \in sel.anos
          /\ variant = "esc" => df.rows[i].escola \in sel.escola
          /\ InInterval(df.rows[i])

\* C9: among the rows that pass the categorical constraints, a row is kept
\* if and only if min <= score <= max.
C9_ScoreIntervalClosed ==
    Filtered =>
        \A i \in 1..Len(df.rows) :
           CatOK(df.rows[i]) =>
              Count(filtered_df.rows, df.rows[i]) =
                 IF InInterval(df.rows[i]) THEN Count(df.rows, df.rows[i]) ELSE 0

\* min = max = 50: a row scoring exactly 50 is kept and rows scoring 30 and
\* 70 that pass the categorical constraints are dropped
C9_Witness ==
    /\ pc = "filtered"
    /\ sel.min = 50 /\ sel.max = 50
    /\ \E i \in 1..Len(filtered_df.rows) : filtered_df.rows[i].score.n = 50 * Scale
    /\ \E i, j \in 1..Len(df.rows) :
          /\ CatOK(df.rows[i]) /\ df.rows[i].score.n = 30 * Scale
          /\ CatOK(df.rows[j]) /\ df.rows[j].score.n = 70 * Scale

-----------------------------------------------------------------------------
(* Properties of the aggregation of create_enhanced_plots.                 *)

\* create_enhanced_plots has computed its aggregated tables
Plotted == pc \in {"plots", "table"} \/ (pc = "done" /\ Len(out) > 0 /\ out[Len(out)] = "footer")

\* the key-tuples present in the rows
KeyTuples(rows, k1, k2) == {<<rows[i][k1], rows[i][k2]>> : i \in 1..Len(rows)}

\* the rows (by position) that carry the key-tuple k
Members(rows, k1, k2, k) == {i \in 1..Len(rows) : rows[i][k1] = k[1] /\ rows[i][k2] = k[2]}

RECURSIVE ScoreTotal(_, _)
ScoreTotal(rows, idx) ==
    IF idx = {} THEN 0
    ELSE LET i == CHOOSE x \in idx : TRUE
         IN  rows[i].score.n + ScoreTotal(rows, idx \ {i})

\* agg has exactly one entry per key-tuple of rows, and the entry's value
\* sum / n is the arithmetic mean of the scores of the rows with that key
IsAggregateOf(agg, rows, k1, k2) ==
    /\ \A k \in KeyTuples(rows, k1, k2) :
          Cardinality({j \in 1..Len(agg) : agg[j].k1 = k[1] /\ agg[j].k2 = k[2]}) = 1
    /\ \A j \in 1..Len(agg) :
          LET k == <<agg[j].k1, agg[j].k2>>
              m == Members(rows, k1, k2, k)
          IN  /\ m # {}
              /\ agg[j].n > 0
              /\ agg[j].sum * Cardinality(m) = ScoreTotal(rows, m) * agg[j].n

\* C10 (as claimed): each aggregated table of the charts has exactly one row
\* per distinct key-tuple present in the filtered table, valued with the
\* unweighted mean of the scores of the rows of that key-tuple.
C10_OneRowPerKeyWithMean ==
    Plotted =>
        /\ IsAggregateOf(grouped_data, filtered_df.rows,
                         IF variant = "desc2" THEN "etapa" ELSE "escola", "comp")
        /\ variant = "esc" =>
              IsAggregateOf(sorted_df, filtered_df.rows, "desc", radio.group_by)

\* the key-tuples of an aggregated table, in its order
KeysOf(agg) == [j \in 1..Len(agg) |-> <<agg[j].k1, agg[j].k2>>]

\* the distinct elements of q in the order of their first occurrence
RECURSIVE Distinct(_)
Distinct(q) ==
    IF q = <<>> THEN <<>>
    ELSE <<q[1]>> \o Distinct(SelectSeq(Tail(q), LAMBDA x : x # q[1]))

\* the key-tuples of the rows of the first chart, row by row
Chart1Keys ==
    [i \in 1..Len(filtered_df.rows) |->
        <<filtered_df.rows[i][IF variant = "desc2" THEN "etapa" ELSE "escola"],
          filtered_df.rows[i].comp>>]

\* C11 (as claimed): the table of the first chart, for which no sort by mean
\* is requested, lists its groups in the order in which their key-tuples
\* first appear in the filtered table.
C11_GroupsInFirstAppearanceOrder ==
    Plotted => KeysOf(grouped_data) = Distinct(Chart1Keys)

\* C11 (amended): the table of the first chart lists its groups in ascending
\* order of their key-tuples (first key, then second key, in string order),
\* whatever the order of their first appearance.
C11_GroupsInKeyOrder ==
    Plotted =>
        \A i, j \in 1..Len(grouped_data) :
            i < j =>
               \/ StrRank(grouped_data[i].k1) < StrRank(grouped_data[j].k1)
               \/ /\ grouped_data[i].k1 = grouped_data[j].k1
                  /\ StrRank(grouped_data[i].k2) < StrRank(grouped_data[j].k2)

\* two groups whose key order is the reverse of their first appearance
C11_Witness ==
    /\ Plotted
    /\ Len(grouped_data) = 2
    /\ KeysOf(grouped_data) # Distinct(Chart1Keys)

-----------------------------------------------------------------------------
(* Properties of the sort of the descriptor view.                          *)

\* the data of the second chart before sort_values
ViewBeforeSort == DescriptorView(variant, filtered_df.rows, radio.group_by)

\* the value of entry a is strictly below that of entry b
ValueBelow(a, b) == a.sum * b.n < b.sum * a.n

\* q is sorted by value in the requested direction
SortedByValue(q, asc) ==
    \A i, j \in 1..Len(q) :
        i < j => IF asc THEN ~ValueBelow(q[j], q[i]) ELSE ~ValueBelow(q[i], q[j])

\* q is p rearranged so that entries of equal value keep their order in p
StableRearrangement(q, p) ==
    /\ Len(q) = Len(p)
    /\ \E f \in [1..Len(p) -> 1..Len(p)] :
          /\ \A i, j \in 1..Len(p) : i # j => f[i] # f[j]
          /\ \A i \in 1..Len(p) : q[i] = p[f[i]]
          /\ \A i, j \in 1..Len(p) :
                (i < j /\ ~ValueBelow(q[i], q[j]) /\ ~ValueBelow(q[j], q[i]))
                   => f[i] < f[j]

\* C12 (as claimed): the descriptor view is sorted with higher values first
\* for "descending" and lower values first for "ascending", and entries of
\* equal value keep the relative order they had before the sort.
C12_SortedAndStable ==
    Plotted => /\ SortedByValue(sorted_df, radio.ascending)
               /\ StableRearrangement(sorted_df, ViewBeforeSort)

\* the part of C12 that holds: the order by value in the chosen direction
C12_SortedOnly ==
    Plotted => SortedByValue(sorted_df, radio.ascending)


-----------------------------------------------------------------------------
(* Properties of one run of main: the empty result and the failed load.    *)

\* C13: when the filtered table has no rows, the run ends with the warning
\* "no data for the selected filters" as its only output, which is not the
\* load-failure message, and no card, chart, table or export is rendered.
C13_EmptyResultStopsRun ==
    (Filtered /\ filtered_df.rows = <<>>) =>
        /\ pc = "done"
        /\ df.ok
        /\ out = <<"warning:empty">>
        /\ out # <<"error:load">>
        /\ grouped_data = <<>>
        /\ sorted_df = <<>>

C13_Witness ==
    /\ pc = "done"
    /\ df.ok /\ df.rows # <<>>
    /\ filtered_df.ok /\ filtered_df.rows = <<>>
    /\ out = <<"warning:empty">>

\* C14: when the loader returns no table, the run shows the load-error
\* message and ends: no filter widget is read, no table is filtered and no
\* card, chart, table or export follows the message.
C14_LoadFailureStopsRun ==
    (Loaded /\ ~df.ok) =>
        /\ pc = "done"
        /\ out = <<"error:load">>
        /\ sel = NoSel
        /\ filtered_df = None
        /\ grouped_data = <<>>
        /\ sorted_df = <<>>

C14_Witness ==
    /\ pc = "done"
    /\ ~df.ok
    /\ log.kind # ""
    /\ out = <<"error:load">>

-----------------------------------------------------------------------------
(* Properties of a session (specification SpecSession).                    *)

\* C15: the loader runs at most once in a session whose file path does not
\* change: a run started by a change of a filter widget does not call it.
C15_LoadOncePerSession == loads <= 1

-----------------------------------------------------------------------------
(* Properties of the components (specification SpecSession).               *)

CardsOutputs == {<<"cards">>, <<"error:cards">>}
PlotsOutputs == {<<"chart1", "chart2">>, <<"chart1", "error:plots">>}
TableOutputs == {<<"table", "exports">>, <<"error:table">>}

\* the run is past the component named c
Past(c) ==
    CASE c = "cards" -> pc \in {"cards", "plots", "table"} \/ (pc = "done" /\ Plotted)
      [] c = "plots" -> pc \in {"plots", "table"} \/ (pc = "done" /\ Plotted)
      [] c = "table" -> pc = "table" \/ (pc = "done" /\ Plotted)

\* C16: for a non-empty filtered table the run renders the cards, the
\* charts, the table and the footer in that order; a failure inside a
\* component is replaced by that component's error message, the components
\* after it still run, and no failure of a component leaves main.
C16_ComponentsInOrderFailuresContained ==
    /\ crash \notin Components
    /\ pc \in {"filtered", "cards", "plots", "table"} => ENABLED Next
    /\ pc = "cards" => out \in CardsOutputs
    /\ pc = "plots" => \E c \in CardsOutputs, p \in PlotsOutputs : out = c \o p
    /\ pc = "table" =>
          \E c \in CardsOutputs, p \in PlotsOutputs, t \in TableOutputs : out = c \o p \o t
    /\ (pc = "done" /\ Plotted) =>
          \E c \in CardsOutputs, p \in PlotsOutputs, t \in TableOutputs :
             out = c \o p \o t \o <<"footer">>
    /\ ("cards" \in faults /\ Past("cards")) =>
          "error:cards" \in Range(out) /\ "cards" \notin Range(out)
    /\ ("plots" \in faults /\ Past("plots")) =>
          "error:plots" \in Range(out) /\ "chart2" \notin Range(out)
    /\ ("table" \in faults /\ Past("table")) =>
          "error:table" \in Range(out) /\ "table" \notin Range(out)

C16_Witness ==
    /\ pc = "done"
    /\ faults = Components
    /\ out = <<"error:cards", "chart1", "error:plots", "error:table", "footer">>

====
